---- MODULE Spec2Model ----
(***************************************************************************)
(* Model of rich_life's simulation engine, class GameOfLife in             *)
(* src/src/rich_life/__main__.py: the sparse grid, the two neighbour       *)
(* counts, the Life step, the Langton's Ant step and the key-press pan.    *)
(*                                                                         *)
(* The object's attributes are the variables of the same names.  Every     *)
(* method is an operator on the record of attributes (the Python `self`)   *)
(* that returns the record after the call; the actions apply them.         *)
(***************************************************************************)
EXTENDS Integers, Sequences, FiniteSets, TLC

VARIABLES
    display_width,   \* self.display_width
    display_height,  \* self.display_height
    infinite_mode,   \* self.infinite_mode
    rules,           \* self.rules
    offset,          \* self.offset, <<ox, oy>>
    mode,            \* self.mode
    generation,      \* self.generation
    grid,            \* self.grid: function from <<x, y>> keys to stored values
    ant_position,    \* self.ant_position (set in Ant mode only)
    ant_direction,   \* self.ant_direction (set in Ant mode only)
    \* History of the calls made on the object (not attributes of it):
    pre_grid,        \* self.grid as it was before the last next_generation()
    offset0,         \* the offset given to the constructor
    n_advance,       \* number of next_generation() calls so far
    pressed,         \* number of key presses so far, per pan direction
                     \* ("none": keys that are no pan key)
    counted,         \* the last get_neighbors(x, y) call made on the object
                     \* from outside and the count it returned
    \* The call of run() on the object, if there is one:
    run_pc,          \* where the thread that called run() is
    generations,     \* the argument of run()
    run_i,           \* number of loop iterations completed
    table,           \* the frame built in the current iteration
    shown,           \* the frames passed to live.update(), in order
    past,            \* the attributes as they were before each next_generation()
                     \* of the loop, in order
    lookup_offsets   \* the values of self.offset read by the neighbour lookups
                     \* of the loop's last next_generation()

attrs == <<display_width, display_height, infinite_mode, rules, offset, mode,
           generation, grid, ant_position, ant_direction>>
hist == <<pre_grid, offset0, n_advance, pressed, counted>>
runv == <<run_pc, generations, run_i, table, shown, past, lookup_offsets>>
vars == <<attrs, hist, runv>>

----------------------------------------------------------------------------
(* Bounds of the model *)

\* next_generation() is called at most MaxGen times on a Life engine ...
MaxGen == 2
\* ... and at most MaxAntGen times on an Ant engine (the ant first steps on
\* a cell it has flipped in its fifth step).
MaxAntGen == 5
\* handle_key_press() is called at most MaxKeys times on a Life engine ...
MaxKeys == 1
\* ... and at most MaxAntKeys times on an Ant engine.
MaxAntKeys == 2
\* The constructor's random grid holds at most MaxDeadKeys keys storing 0.
MaxDeadKeys == 1
\* get_neighbors() is asked about cells up to MaxCoord away from the origin.
MaxCoord == 4
\* run() is called with generations up to MaxRunGen ...
MaxRunGen == 2
\* ... and at most MaxRunKeys key presses are delivered to its callback.
MaxRunKeys == 1

\* The (display_width, display_height) pairs the constructor is called with.
Sizes == {<<3, 2>>, <<1, 3>>, <<2, 2>>, <<1, 1>>, <<0, 2>>, <<2, -1>>}
\* The sizes of the finite 3 x 3 board.
TorusSizes == {<<3, 3>>}
\* The sizes of the finite boards whose neighbour counts are compared: one
\* with three columns and rows, and ones with fewer.
BoardSizes == {<<3, 3>>, <<2, 2>>, <<1, 3>>}
\* The offset those boards are constructed with.
BoardOffsets == {<<-1, 2>>}
\* The sizes and the offset of the engines run() is called on.
RunSizes == {<<2, 1>>}
RunOffsets == {<<0, 0>>}
\* event.name values delivered to the callback while run() is under way.
RunKeys == {"w", "d", "q"}
\* The offsets the constructor is called with (<<0, 0>> is the default).
Offsets == {<<0, 0>>, <<-1, 2>>}
\* event.name values delivered to handle_key_press.
Keys == {"w", "up", "s", "down", "a", "left", "d", "right", "q"}

----------------------------------------------------------------------------
(* Enumerations and Python arithmetic *)

MOORE == "moore"
VAN_NEUMANN == "van_neumann"
NeighborhoodRules == {MOORE, VAN_NEUMANN}

LIFE == "life"
ANTS == "ants"
SimulationMode == {LIFE, ANTS}

\* An attribute __init__ never assigns (ant_position, ant_direction in Life mode).
Unset == <<>>

\* Python's a % n: the result has the sign of n; n = 0 raises ZeroDivisionError.
PyMod(a, n) ==
    IF n > 0 THEN a % n
    ELSE IF n < 0 THEN -((-a) % (-n))
    ELSE "ZeroDivisionError"

\* Python's a // 2 (floor division).
PyFloorDiv2(a) == a \div 2

\* The empty dict.
EmptyGrid == [c \in {} |-> 1]

\* dict.get(key, 0)
Get(g, key) == IF key \in DOMAIN g THEN g[key] ELSE 0

\* The attribute record of the object whose attributes are the variables.
Self ==
    [display_width |-> display_width, display_height |-> display_height,
     infinite_mode |-> infinite_mode, rules |-> rules, offset |-> offset,
     mode |-> mode, generation |-> generation, grid |-> grid,
     ant_position |-> ant_position, ant_direction |-> ant_direction]

----------------------------------------------------------------------------
(* Neighbour counts *)

\* The neighbour offsets in the order the loops visit them.
VanNeumannDeltas == << <<-1, 0>>, <<1, 0>>, <<0, -1>>, <<0, 1>> >>
MooreDeltas == << <<-1, -1>>, <<-1, 0>>, <<-1, 1>>, <<0, -1>>,
                  <<0, 1>>, <<1, -1>>, <<1, 0>>, <<1, 1>> >>

\* The cells of the width x height window rooted at off.
Window(w, h, off) == {<<x + off[1], y + off[2]>> : x \in 0..(w - 1), y \in 0..(h - 1)}

\* Faulty variant of Wrap: the remainder truncates toward zero (it takes the
\* sign of the dividend), as C's % does.
Wrap_truncating(s, nx, ny) ==
    LET Rem(a, n) == IF n <= 0 THEN PyMod(a, n)
                     ELSE IF a >= 0 THEN a % n ELSE -((-a) % n)
    IN  <<Rem(nx - s.offset[1], s.display_width) + s.offset[1],
          Rem(ny - s.offset[2], s.display_height) + s.offset[2]>>

\* The finite-mode wrap of the raw neighbour (nx, ny) into the window rooted
\* at offset.
Wrap(s, nx, ny) ==
    <<PyMod(nx - s.offset[1], s.display_width) + s.offset[1],
      PyMod(ny - s.offset[2], s.display_height) + s.offset[2]>>

\* Faulty variant of Lookup: infinite mode reads a neighbour outside the window as 0.
Lookup_clipped(s, nx, ny) ==
    IF s.infinite_mode
    THEN IF <<nx, ny>> \in Window(s.display_width, s.display_height, s.offset)
         THEN Get(s.grid, <<nx, ny>>)
         ELSE 0
    ELSE Get(s.grid, Wrap(s, nx, ny))

\* self.grid.get((nx, ny), 0) for the raw neighbour (nx, ny): looked up as it
\* is in infinite mode, wrapped first otherwise.
Lookup(s, nx, ny) ==
    IF s.infinite_mode
    THEN Get(s.grid, <<nx, ny>>)
    ELSE Get(s.grid, Wrap(s, nx, ny))

\* count += ... over deltas[i..]
RECURSIVE CountFrom(_, _, _, _, _)
CountFrom(s, x, y, deltas, i) ==
    IF i > Len(deltas) THEN 0
    ELSE Lookup(s, x + deltas[i][1], y + deltas[i][2])
         + CountFrom(s, x, y, deltas, i + 1)

get_neighbors_van_neumann(s, x, y) == CountFrom(s, x, y, VanNeumannDeltas, 1)

\* Faulty variant of get_neighbors_moore: the cell itself is counted with its
\* neighbours.
get_neighbors_moore_centre(s, x, y) ==
    CountFrom(s, x, y, MooreDeltas, 1) + Lookup(s, x, y)

get_neighbors_moore(s, x, y) == CountFrom(s, x, y, MooreDeltas, 1)

get_neighbors(s, x, y) ==
    IF s.rules = VAN_NEUMANN
    THEN get_neighbors_van_neumann(s, x, y)
    ELSE get_neighbors_moore(s, x, y)

----------------------------------------------------------------------------
(* The Life step *)

\* Faulty variant of cells_to_check: only the live keys are candidates.
cells_to_check_keys_only(s) == DOMAIN s.grid

\* cells_to_check: the keys of the grid and the 3x3 block around each key.
cells_to_check(s) ==
    (DOMAIN s.grid) \cup
    {<<c[1] + dx, c[2] + dy>> : c \in DOMAIN s.grid, dx \in -1..1, dy \in -1..1}

\* Faulty variant of LifeRule: a live cell survives with 2, 3 or 4 neighbours.
LifeRule_survive4(s, c) ==
    LET neighbors == get_neighbors(s, c[1], c[2])
    IN  IF Get(s.grid, c) = 1
        THEN 2 <= neighbors /\ neighbors <= 4
        ELSE neighbors = 3

\* Whether the loop body stores new_grid[(x, y)] = 1 for the cell c.
LifeRule(s, c) ==
    LET neighbors == get_neighbors(s, c[1], c[2])
    IN  IF Get(s.grid, c) = 1
        THEN 2 <= neighbors /\ neighbors <= 3
        ELSE neighbors = 3

new_grid(s) == [c \in {c \in cells_to_check(s) : LifeRule(s, c)} |-> 1]

\* Faulty variant of _next_generation_life: no count of a step that changes nothing.
_next_generation_life_idle(s) ==
    IF new_grid(s) = s.grid
    THEN s
    ELSE [s EXCEPT !.grid = new_grid(s), !.generation = s.generation + 1]

_next_generation_life(s) ==
    [s EXCEPT !.grid = new_grid(s), !.generation = s.generation + 1]

----------------------------------------------------------------------------
(* The Langton's Ant step *)

\* [(0, -1), (1, 0), (0, 1), (-1, 0)][direction], direction in 0..3
AntVectors == << <<0, -1>>, <<1, 0>>, <<0, 1>>, <<-1, 0>> >>

\* The grid after the cell at pos is flipped.
FlipCell(g, pos) ==
    IF Get(g, pos) = 0
    THEN [c \in (DOMAIN g) \cup {pos} |-> IF c = pos THEN 1 ELSE g[c]]
    ELSE [c \in (DOMAIN g) \ {pos} |-> g[c]]

\* Faulty variant of Turn: left on a dead cell, right on a live one.
Turn_reversed(direction, current_color) ==
    IF current_color = 0
    THEN PyMod(direction - 1, 4)
    ELSE PyMod(direction + 1, 4)

\* Faulty variant of Turn: the ant keeps its heading on a live cell.
Turn_straight(direction, current_color) ==
    IF current_color = 0
    THEN PyMod(direction + 1, 4)
    ELSE direction

\* The heading after the turn on a cell of the given colour.
Turn(direction, current_color) ==
    IF current_color = 0
    THEN PyMod(direction + 1, 4)
    ELSE PyMod(direction - 1, 4)

\* Faulty variant of _next_generation_ant: the viewport follows the ant.
_next_generation_ant_follow(s) ==
    LET x == s.ant_position[1]
        y == s.ant_position[2]
        current_color == Get(s.grid, <<x, y>>)
        direction == Turn(s.ant_direction, current_color)
        d == AntVectors[direction + 1]
    IN  [s EXCEPT !.grid = FlipCell(s.grid, <<x, y>>),
                  !.ant_direction = direction,
                  !.ant_position = <<x + d[1], y + d[2]>>,
                  !.offset = <<s.offset[1] + d[1], s.offset[2] + d[2]>>,
                  !.generation = s.generation + 1]

_next_generation_ant(s) ==
    LET x == s.ant_position[1]
        y == s.ant_position[2]
        current_color == Get(s.grid, <<x, y>>)
        direction == Turn(s.ant_direction, current_color)
        d == AntVectors[direction + 1]
    IN  [s EXCEPT !.grid = FlipCell(s.grid, <<x, y>>),
                  !.ant_direction = direction,
                  !.ant_position = <<x + d[1], y + d[2]>>,
                  !.generation = s.generation + 1]

next_generation(s) ==
    IF s.mode = LIFE THEN _next_generation_life(s) ELSE _next_generation_ant(s)

----------------------------------------------------------------------------
(* Panning *)

\* Faulty variant of handle_key_press: "s"/"down" moves the offset up, as "w" does.
handle_key_press_down_up(s, key) ==
    IF key \in {"w", "up"}
    THEN [s EXCEPT !.offset = <<s.offset[1], s.offset[2] - 1>>]
    ELSE IF key \in {"s", "down"}
    THEN [s EXCEPT !.offset = <<s.offset[1], s.offset[2] - 1>>]
    ELSE IF key \in {"a", "left"}
    THEN [s EXCEPT !.offset = <<s.offset[1] - 1, s.offset[2]>>]
    ELSE IF key \in {"d", "right"}
    THEN [s EXCEPT !.offset = <<s.offset[1] + 1, s.offset[2]>>]
    ELSE s

handle_key_press(s, key) ==
    IF key \in {"w", "up"}
    THEN [s EXCEPT !.offset = <<s.offset[1], s.offset[2] - 1>>]
    ELSE IF key \in {"s", "down"}
    THEN [s EXCEPT !.offset = <<s.offset[1], s.offset[2] + 1>>]
    ELSE IF key \in {"a", "left"}
    THEN [s EXCEPT !.offset = <<s.offset[1] - 1, s.offset[2]>>]
    ELSE IF key \in {"d", "right"}
    THEN [s EXCEPT !.offset = <<s.offset[1] + 1, s.offset[2]>>]
    ELSE s

\* The direction a key pans to ("none" for a key that is not a pan key).
PanDirection(key) ==
    IF key \in {"w", "up"} THEN "up"
    ELSE IF key \in {"s", "down"} THEN "down"
    ELSE IF key \in {"a", "left"} THEN "left"
    ELSE IF key \in {"d", "right"} THEN "right"
    ELSE "none"

Directions == {"up", "down", "left", "right"}

----------------------------------------------------------------------------
(* Construction *)

\* The grids the dict comprehension of __init__ can build in Life mode: a key
\* for every window cell whose second draw is 1, storing the first draw.
SeedGrids(w, h, off) ==
    UNION {{g \in [K -> {0, 1}] :
              Cardinality({c \in K : g[c] = 0}) <= MaxDeadKeys} :
           K \in SUBSET Window(w, h, off)}

\* The attributes after GameOfLife(w, h, inf, r, off, m) with the drawn grid g.
Constructed(w, h, inf, r, off, m, g) ==
    [display_width |-> w, display_height |-> h, infinite_mode |-> inf,
     rules |-> r, offset |-> off, mode |-> m, generation |-> 0,
     grid |-> IF m = LIFE THEN g ELSE EmptyGrid,
     ant_position |-> IF m = LIFE THEN Unset
                      ELSE <<PyFloorDiv2(w) + off[1], PyFloorDiv2(h) + off[2]>>,
     ant_direction |-> IF m = LIFE THEN Unset ELSE 0]

----------------------------------------------------------------------------
(* The state machine *)

\* The variables hold the attribute record s.
Holds(s) ==
    /\ display_width = s.display_width
    /\ display_height = s.display_height
    /\ infinite_mode = s.infinite_mode
    /\ rules = s.rules
    /\ offset = s.offset
    /\ mode = s.mode
    /\ generation = s.generation
    /\ grid = s.grid
    /\ ant_position = s.ant_position
    /\ ant_direction = s.ant_direction

Becomes(s) ==
    /\ display_width' = s.display_width
    /\ display_height' = s.display_height
    /\ infinite_mode' = s.infinite_mode
    /\ rules' = s.rules
    /\ offset' = s.offset
    /\ mode' = s.mode
    /\ generation' = s.generation
    /\ grid' = s.grid
    /\ ant_position' = s.ant_position
    /\ ant_direction' = s.ant_direction

\* run() has not been called.
RunIdle ==
    /\ run_pc = "idle"
    /\ generations = 0
    /\ run_i = 0
    /\ table = Unset
    /\ shown = <<>>
    /\ past = <<>>
    /\ lookup_offsets = {}

\* The states GameOfLife(...) can return, for the given argument sets.
InitOf(sizes, infs, rs, offs, ms) ==
    \E size \in sizes, inf \in infs, r \in rs, off \in offs, m \in ms :
      \E g \in (IF m = LIFE THEN SeedGrids(size[1], size[2], off) ELSE {EmptyGrid}) :
        /\ Holds(Constructed(size[1], size[2], inf, r, off, m, g))
        /\ pre_grid = grid
        /\ offset0 = off
        /\ n_advance = 0
        /\ pressed = [d \in Directions \cup {"none"} |-> 0]
        /\ counted = Unset
        /\ RunIdle

Init == InitOf(Sizes, BOOLEAN, NeighborhoodRules, Offsets, SimulationMode)

\* Life on the finite 3 x 3 board with the Moore ruleset.
InitTorus == InitOf(TorusSizes, {FALSE}, {MOORE}, Offsets, {LIFE})

NKeys == pressed["up"] + pressed["down"] + pressed["left"] + pressed["right"]
           + pressed["none"]

\* game.next_generation()
Advance ==
    /\ n_advance < (IF mode = LIFE THEN MaxGen ELSE MaxAntGen)
    /\ Becomes(next_generation(Self))
    /\ pre_grid' = grid
    /\ n_advance' = n_advance + 1
    /\ UNCHANGED <<offset0, pressed, counted>>
    /\ UNCHANGED runv

\* game.handle_key_press(event) with event.name = key
KeyPress ==
    \E key \in Keys :
        /\ NKeys < (IF mode = LIFE THEN MaxKeys ELSE MaxAntKeys)
        /\ Becomes(handle_key_press(Self, key))
        /\ pressed' = [pressed EXCEPT ![PanDirection(key)] = @ + 1]
        /\ UNCHANGED <<pre_grid, offset0, n_advance, counted>>
        /\ UNCHANGED runv

Next == Advance \/ KeyPress

Spec == Init /\ [][Next]_vars

SpecTorus == InitTorus /\ [][Next]_vars

\* game.get_neighbors(x, y) for a cell of the displayed region, as the tests
\* call it on a constructed board.
GetNeighbors ==
    /\ \E c \in Window(display_width, display_height, offset) :
          counted' = [x |-> c[1], y |-> c[2],
                        count |-> get_neighbors(Self, c[1], c[2])]
    /\ UNCHANGED <<attrs, pre_grid, offset0, n_advance, pressed, runv>>

\* Life on the finite boards of BoardSizes with the Moore ruleset.
InitBoard == InitOf(BoardSizes, {FALSE}, {MOORE}, BoardOffsets, {LIFE})

\* The neighbour counts of the constructed boards.
SpecBoard == InitBoard /\ [][GetNeighbors]_vars

----------------------------------------------------------------------------
(* run(): the display loop and the key-press callback *)

\* The (x, y) pairs of the two range() loops that fill the table.
Positions(s) == (0..(s.display_width - 1)) \X (0..(s.display_height - 1))

\* The glyphs of the ant by heading ("▲▶▼◀"[self.ant_direction]), of a
\* living Life cell ("●"), of a living Ant cell ("■") and of a dead
\* cell (" ").
Arrows == <<"up", "right", "down", "left">>

\* The glyph of the table cell (x, y), the reads of self.offset[0] and
\* self.offset[1] having returned off[1] and off[2].
Cell(s, x, y, off) ==
    LET cell_x == x + off[1]
        cell_y == y + off[2]
    IN  IF s.mode = LIFE
        THEN IF Get(s.grid, <<cell_x, cell_y>>) # 0 THEN "dot" ELSE "blank"
        ELSE IF <<cell_x, cell_y>> = s.ant_position
             THEN Arrows[s.ant_direction + 1]
             ELSE IF Get(s.grid, <<cell_x, cell_y>>) # 0 THEN "square" ELSE "blank"

\* The number of reads of self.offset in one frame build: one for the title
\* and two for every cell.
NReads(s) == 1 + 2 * Cardinality(Positions(s))

\* Faulty variant of Frame: the frame is built from the attributes as they
\* are after the iteration's next_generation().
Frame_late(s, later_offset, r) ==
    LET n == next_generation(s)
        OffsetAt(i) == IF i <= r THEN s.offset ELSE later_offset
        Index(pos) == pos[2] * s.display_width + pos[1]
    IN  [generation |-> n.generation,
         of |-> generations,
         title_offset |-> OffsetAt(1),
         cells |-> [pos \in Positions(s) |->
                      LET off == <<OffsetAt(2 * Index(pos) + 2)[1],
                                   OffsetAt(2 * Index(pos) + 3)[2]>>
                      IN  [off |-> off, glyph |-> Cell(n, pos[1], pos[2], off)]]]

\* The title and the table built by one loop iteration on the attributes s,
\* whose first r reads of self.offset return s.offset and whose later reads
\* return later_offset.  The cells are filled row by row.
Frame(s, later_offset, r) ==
    LET OffsetAt(i) == IF i <= r THEN s.offset ELSE later_offset
        Index(pos) == pos[2] * s.display_width + pos[1]
    IN  [generation |-> s.generation,
         of |-> generations,
         title_offset |-> OffsetAt(1),
         cells |-> [pos \in Positions(s) |->
                      LET off == <<OffsetAt(2 * Index(pos) + 2)[1],
                                   OffsetAt(2 * Index(pos) + 3)[2]>>
                      IN  [off |-> off, glyph |-> Cell(s, pos[1], pos[2], off)]]]

\* The neighbour offsets of the configured ruleset, in the order the loops
\* visit them.
Deltas(s) == IF s.rules = VAN_NEUMANN THEN VanNeumannDeltas ELSE MooreDeltas

\* The reads of self.offset one neighbour count makes in finite mode: four
\* for every lookup (offset[0] twice for x, then offset[1] twice for y).
NCountReads(s) == 4 * Len(Deltas(s))

\* The i-th lookup of a neighbour count during which the callback assigns
\* later_offset to self.offset: the first r reads of the count return
\* s.offset and the later ones later_offset.
LookupDuringPan(s, later_offset, r, i, nx, ny) ==
    IF s.infinite_mode
    THEN Get(s.grid, <<nx, ny>>)
    ELSE LET Read(k) == IF 4 * (i - 1) + k <= r THEN s.offset ELSE later_offset
         IN  Get(s.grid,
                 <<PyMod(nx - Read(1)[1], s.display_width) + Read(2)[1],
                   PyMod(ny - Read(3)[2], s.display_height) + Read(4)[2]>>)

\* count += ... over the lookups i, i + 1, ... of that count.
RECURSIVE CountDuringPanFrom(_, _, _, _, _, _)
CountDuringPanFrom(s, later_offset, r, x, y, i) ==
    IF i > Len(Deltas(s)) THEN 0
    ELSE LookupDuringPan(s, later_offset, r, i,
                         x + Deltas(s)[i][1], y + Deltas(s)[i][2])
         + CountDuringPanFrom(s, later_offset, r, x, y, i + 1)

\* Whether the loop body stores new_grid[(x, y)] = 1 for the cell c when the
\* offset changes after r reads of c's neighbour count.
LifeRuleDuringPan(s, later_offset, r, c) ==
    LET neighbors == CountDuringPanFrom(s, later_offset, r, c[1], c[2], 1)
    IN  IF Get(s.grid, c) = 1
        THEN 2 <= neighbors /\ neighbors <= 3
        ELSE neighbors = 3

\* _next_generation_life on s while the callback replaces self.offset by
\* later_offset: the loop has visited the candidates in done and made r
\* reads of the count of the candidate c when the offset changes; the other
\* candidates are visited after it.  (The loop visits the candidates in the
\* iteration order of a set, which may be any order.)
_next_generation_life_during_pan(s, later_offset, done, c, r) ==
    LET later == [s EXCEPT !.offset = later_offset]
        born == {d \in cells_to_check(s) :
                    IF d = c THEN LifeRuleDuringPan(s, later_offset, r, d)
                    ELSE IF d \in done THEN LifeRule(s, d)
                    ELSE LifeRule(later, d)}
    IN  [later EXCEPT !.grid = [d \in born |-> 1],
                      !.generation = s.generation + 1]

\* The key sets of the grids _next_generation_life_during_pan gives, over
\* every candidate c, every set done of other candidates and every
\* r < NCountReads(s) such that a read is made before the offset changes
\* (r > 0 or done is not empty) and one after it.  Only the candidates the
\* rule of which differs between the two offsets need to be placed in done
\* or out of it.
NewGridsDuringPan(s, later_offset) ==
    LET later == [s EXCEPT !.offset = later_offset]
        cands == cells_to_check(s)
        old == {d \in cands : LifeRule(s, d)}
        new == {d \in cands : LifeRule(later, d)}
        either == (old \ new) \cup (new \ old)
        rest == cands \ either
    IN  UNION {
          LET inside == {LifeRuleDuringPan(s, later_offset, r, c) :
                            r \in 1..(NCountReads(s) - 1)}
          IN  UNION {
                LET before == IF D # {} \/ rest \ {c} # {} THEN {c \in new} ELSE {}
                IN  {(old \cap ((D \cup rest) \ {c}))
                        \cup (new \cap (either \ (D \cup {c})))
                        \cup (IF b THEN {c} ELSE {}) : b \in inside \cup before}
                : D \in SUBSET (either \ {c})}
          : c \in cands}

\* The calls of the loop stop the model at MaxRunKeys key presses, at most
\* one of them during one frame build or one next_generation().
RunKeyBudget == run_pc # "idle" /\ NKeys < MaxRunKeys

\* game.run(generations): on_press(self.handle_key_press), the Live display
\* is entered, and left at once if there is no iteration to make.
RunStart ==
    /\ run_pc = "idle"
    /\ \E n \in 0..MaxRunGen :
          /\ generations' = n
          /\ run_pc' = IF n = 0 THEN "done" ELSE "frame"
    /\ UNCHANGED <<attrs, hist, run_i, table, shown, past, lookup_offsets>>

\* The title and the table of one iteration, no key pressed meanwhile.
RunFrame ==
    /\ run_pc = "frame"
    /\ table' = Frame(Self, offset, NReads(Self))
    /\ run_pc' = "advance"
    /\ UNCHANGED <<attrs, hist, generations, run_i, shown, past, lookup_offsets>>

\* The title and the table of one iteration while the keyboard listener's
\* thread runs handle_key_press: the new offset is assigned between two of
\* the reads of self.offset.
RunFrameDuringKey ==
    /\ run_pc = "frame"
    /\ RunKeyBudget
    /\ \E key \in RunKeys, r \in 1..(NReads(Self) - 1) :
          LET after == handle_key_press(Self, key)
          IN  /\ table' = Frame(Self, after.offset, r)
              /\ Becomes(after)
              /\ pressed' = [pressed EXCEPT ![PanDirection(key)] = @ + 1]
    /\ run_pc' = "advance"
    /\ UNCHANGED <<pre_grid, offset0, n_advance, counted>>
    /\ UNCHANGED <<generations, run_i, shown, past, lookup_offsets>>

\* self.next_generation() of one iteration, no key pressed meanwhile.
RunAdvance ==
    /\ run_pc = "advance"
    /\ Becomes(next_generation(Self))
    /\ pre_grid' = grid
    /\ n_advance' = n_advance + 1
    /\ past' = Append(past, Self)
    /\ lookup_offsets' = IF mode = LIFE /\ ~infinite_mode /\ cells_to_check(Self) # {}
                         THEN {offset} ELSE {}
    /\ run_pc' = "update"
    /\ UNCHANGED <<offset0, pressed, counted, generations, run_i, table, shown>>

\* self.next_generation() of one iteration in Life mode while the keyboard
\* listener's thread runs handle_key_press: the new offset is assigned
\* between two of the reads of self.offset the neighbour counts make (in
\* infinite mode they make none, and the step is the same as without a key).
RunAdvanceDuringKey ==
    /\ run_pc = "advance"
    /\ mode = LIFE
    /\ RunKeyBudget
    /\ \E key \in RunKeys :
          LET after == handle_key_press(Self, key)
          IN  /\ \E born \in NewGridsDuringPan(Self, after.offset) :
                    Becomes([after EXCEPT !.grid = [d \in born |-> 1],
                                          !.generation = generation + 1])
              /\ pressed' = [pressed EXCEPT ![PanDirection(key)] = @ + 1]
              /\ lookup_offsets' = IF infinite_mode THEN {} ELSE {offset, after.offset}
    /\ pre_grid' = grid
    /\ n_advance' = n_advance + 1
    /\ past' = Append(past, Self)
    /\ run_pc' = "update"
    /\ UNCHANGED <<offset0, counted, generations, run_i, table, shown>>

\* live.update(table) and sleep(...): the iteration is over, and the loop
\* with it after the last one.
RunUpdate ==
    /\ run_pc = "update"
    /\ shown' = Append(shown, table)
    /\ run_i' = run_i + 1
    /\ run_pc' = IF run_i + 1 < generations THEN "frame" ELSE "done"
    /\ UNCHANGED <<attrs, hist, generations, table, past, lookup_offsets>>

\* handle_key_press run by the keyboard listener's thread between two steps
\* of the loop, or after it (the callback stays registered).
RunKeyPress ==
    /\ RunKeyBudget
    /\ \E key \in RunKeys :
          /\ Becomes(handle_key_press(Self, key))
          /\ pressed' = [pressed EXCEPT ![PanDirection(key)] = @ + 1]
    /\ UNCHANGED <<pre_grid, offset0, n_advance, counted>>
    /\ UNCHANGED runv

\* The thread that called run().
RunThread == RunStart \/ RunFrame \/ RunAdvance \/ RunUpdate

NextRun ==
    \/ RunStart
    \/ RunFrame
    \/ RunFrameDuringKey
    \/ RunAdvance
    \/ RunAdvanceDuringKey
    \/ RunUpdate
    \/ RunKeyPress

\* The engines run() is called on, right after construction.
InitRun == InitOf(RunSizes, BOOLEAN, {MOORE}, RunOffsets, SimulationMode)

\* run() with the keyboard callback; the calling thread is not held up
\* forever (sleep() returns, the listener's thread is another one).
SpecRun == InitRun /\ [][NextRun]_vars /\ WF_vars(RunThread)

----------------------------------------------------------------------------
(* Vocabulary of the properties *)

\* The alive cells of a grid: the keys storing 1.
Alive(g) == {c \in DOMAIN g : g[c] = 1}

\* The current viewport: [ox, ox+width) x [oy, oy+height).
Viewport == Window(display_width, display_height, offset)

\* The rectangle spanned by the cells of S, widened by m cells on every side.
Box(S, m) ==
    IF S = {} THEN {}
    ELSE LET xs == {c[1] : c \in S}
             ys == {c[2] : c \in S}
             Min(T) == CHOOSE a \in T : \A b \in T : a <= b
             Max(T) == CHOOSE a \in T : \A b \in T : a >= b
         IN  ((Min(xs) - m)..(Max(xs) + m)) \X ((Min(ys) - m)..(Max(ys) + m))

\* This step is a next_generation() call.
AdvanceStep == n_advance' = n_advance + 1

\* The attributes with the grid as it was before the last next_generation().
Before == [Self EXCEPT !.grid = pre_grid]

\* countNeighbors of the cell c in the current state.
Neighbors(c) == get_neighbors(Self, c[1], c[2])

----------------------------------------------------------------------------
(* C1 *)

\* The whole plane, as far as a cell can have a neighbour: every cell within
\* distance 2 of a key (all other cells are dead and have no live neighbour).
Plane == Box(DOMAIN grid, 2)

\* Conway's rule for the cell c on the current grid.
Conway(c) ==
    \/ c \in Alive(grid) /\ Neighbors(c) \in {2, 3}
    \/ c \notin Alive(grid) /\ Neighbors(c) = 3

\* C1: in Life mode with infinite boundary mode, for either ruleset and any
\* grid whose stored values are all 1, one advance() replaces the grid with
\* exactly the cells of the plane that survive (alive, 2 or 3 neighbours) or
\* are born (dead, exactly 3 neighbours), counted in the pre-step grid.
C1_LifeStepInfinite ==
    [][(AdvanceStep /\ mode = LIFE /\ infinite_mode
            /\ \A c \in DOMAIN grid : grid[c] = 1)
        => grid' = [c \in {c \in Plane : Conway(c)} |-> 1]]_vars

\* A Von Neumann step on an all-1 grid in which a cell was born and a live
\* cell died.
C1_Witness ==
    /\ mode = LIFE /\ infinite_mode /\ rules = VAN_NEUMANN
    /\ n_advance >= 1
    /\ \A c \in DOMAIN pre_grid : pre_grid[c] = 1
    /\ \E c \in DOMAIN grid : c \notin DOMAIN pre_grid
    /\ \E c \in DOMAIN pre_grid : c \notin DOMAIN grid

----------------------------------------------------------------------------
(* C2 *)

\* The 8 neighbours of c on the w x h torus rooted at off.
TorusNeighbors(c, w, h, off) ==
    {<<((c[1] - off[1] + dx) % w) + off[1], ((c[2] - off[2] + dy) % h) + off[2]>> :
        dx \in -1..1, dy \in -1..1} \ {c}

\* The reference Conway update of the live set A on that torus.
TorusStep(A, w, h, off) ==
    {c \in Window(w, h, off) :
        LET n == Cardinality(TorusNeighbors(c, w, h, off) \cap A)
        IN  (c \in A /\ n \in {2, 3}) \/ (c \notin A /\ n = 3)}

\* C2: in Life mode with finite boundary mode (Moore, width and height at
\* least 3, no pan, the constructed grid inside the viewport) every advance()
\* takes the alive cells inside the viewport to the reference Conway update of
\* them on the width x height torus.
C2_TorusRefinement ==
    [][(AdvanceStep /\ mode = LIFE /\ ~infinite_mode /\ rules = MOORE
            /\ display_width >= 3 /\ display_height >= 3 /\ NKeys = 0)
        => Alive(grid') \cap Viewport
             = TorusStep(Alive(grid) \cap Viewport,
                         display_width, display_height, offset)]_vars

----------------------------------------------------------------------------
(* C3 *)

\* C3: in Life mode, for either ruleset and either boundary mode, a cell alive
\* before advance() is alive after it if and only if its countNeighbors value
\* in the pre-step grid is 2 or 3.
C3_Survival ==
    [][(AdvanceStep /\ mode = LIFE)
        => \A c \in Alive(grid) :
              (c \in Alive(grid')) <=> (Neighbors(c) \in {2, 3})]_vars

\* After a step in infinite mode (no key pressed since construction): a cell
\* that was alive with 4 or more neighbours is gone and one with 2 or 3 is
\* still alive.
C3_Witness ==
    /\ mode = LIFE /\ infinite_mode /\ n_advance >= 1 /\ NKeys = 0
    /\ \E c \in Alive(pre_grid) :
          get_neighbors(Before, c[1], c[2]) >= 4 /\ c \notin DOMAIN grid
    /\ \E c \in Alive(pre_grid) :
          get_neighbors(Before, c[1], c[2]) \in {2, 3} /\ c \in Alive(grid)

----------------------------------------------------------------------------
(* C4 *)

\* The direction vectors North, East, South, West.
Heading(i) ==
    CASE i = 0 -> <<0, -1>> [] i = 1 -> <<1, 0>> [] i = 2 -> <<0, 1>>
      [] i = 3 -> <<-1, 0>>

\* The cell the ant is placed on by the constructor.
AntStart ==
    <<(display_width \div 2) + offset0[1], (display_height \div 2) + offset0[2]>>

\* C4: in Ant mode one advance() toggles the cell at the ant's position and
\* no other cell, turns the heading right (+1 mod 4) if that cell was dead and
\* left (-1 mod 4) if it was alive, and moves the ant one cell along the new
\* heading; the first advance() after construction leaves the start cell
\* alive, the heading East and the ant one cell east of the start.
C4_AntStep ==
    /\ [][(AdvanceStep /\ mode = ANTS)
          => LET p == ant_position
                 wasDead == p \notin DOMAIN grid
                 h == IF wasDead THEN (ant_direction + 1) % 4
                                 ELSE (ant_direction + 3) % 4
             IN  /\ DOMAIN grid' = IF wasDead THEN DOMAIN grid \cup {p}
                                              ELSE DOMAIN grid \ {p}
                 /\ \A c \in DOMAIN grid' :
                       grid'[c] = IF c = p THEN 1 ELSE grid[c]
                 /\ ant_direction' = h
                 /\ ant_position' = <<p[1] + Heading(h)[1], p[2] + Heading(h)[2]>>]_vars
    /\ []((mode = ANTS /\ n_advance = 1)
          => /\ grid = [c \in {AntStart} |-> 1]
             /\ ant_direction = 1
             /\ ant_position = <<AntStart[1] + 1, AntStart[2]>>)

\* The ant has just stepped off a cell that was alive: the step removed it
\* and turned the ant left.
C4_Witness ==
    /\ mode = ANTS /\ n_advance >= 5
    /\ \E c \in DOMAIN pre_grid : c \notin DOMAIN grid

----------------------------------------------------------------------------
(* C5 *)

\* C5: generation is 0 after construction, grows by exactly 1 on every
\* advance() in both modes and is not changed by a key press: after k
\* advance() calls interleaved with any key presses it equals k.
C5_Generation == generation = n_advance

\* Two Life steps that changed nothing, with a key pressed in between or
\* around them.
C5_Witness ==
    /\ mode = LIFE /\ n_advance = 2 /\ NKeys >= 1
    /\ grid = pre_grid

----------------------------------------------------------------------------
(* C6 *)

\* The offset change of a pan direction ("none": no pan key).
PanVector(d) ==
    CASE d = "up" -> <<0, -1>> [] d = "down" -> <<0, 1>>
      [] d = "left" -> <<-1, 0>> [] d = "right" -> <<1, 0>>
      [] d = "none" -> <<0, 0>>

\* C6: a pan changes exactly one component of the offset by exactly 1 and
\* leaves grid, generation and ant unchanged, any other key changes nothing;
\* so the offset is the constructor's offset plus
\* (#right - #left, #down - #up).
C6_Pan ==
    /\ [][\A d \in Directions \cup {"none"} :
            pressed'[d] = pressed[d] + 1
            => /\ offset' = <<offset[1] + PanVector(d)[1], offset[2] + PanVector(d)[2]>>
               /\ UNCHANGED <<grid, generation, ant_position, ant_direction>>]_vars
    /\ [](offset = <<offset0[1] + pressed["right"] - pressed["left"],
                     offset0[2] + pressed["down"] - pressed["up"]>>)

\* Right then left (in some order, around steps) on a non-empty grid: the
\* offset is the constructor's again.
C6_Witness ==
    /\ pressed["right"] = 1 /\ pressed["left"] = 1
    /\ n_advance >= 2 /\ DOMAIN grid # {}
    /\ offset = offset0

----------------------------------------------------------------------------
(* C7 *)

\* For every key, advance() after the key press gives the attributes that
\* the key press after advance() gives.
Commute ==
    LET advanced == next_generation(Self)
    IN  \A key \in Keys :
           next_generation(handle_key_press(Self, key))
               = handle_key_press(advanced, key)

\* C7: panning is purely a display-window move: in every mode, ruleset and
\* boundary mode (infinite and finite) pan and advance() commute on the
\* simulation state.
C7_PanCommutes == Commute

----------------------------------------------------------------------------
(* C8 *)

\* C8: every key of the grid maps to 1, in every reachable state from
\* construction on.
C8_SparseGrid == \A c \in DOMAIN grid : grid[c] = 1

----------------------------------------------------------------------------
(* C9 *)

\* The raw neighbour coordinates of c under the configured ruleset.
RawNeighbors(c) ==
    IF rules = VAN_NEUMANN
    THEN {<<c[1] - 1, c[2]>>, <<c[1] + 1, c[2]>>, <<c[1], c[2] - 1>>, <<c[1], c[2] + 1>>}
    ELSE {<<c[1] + dx, c[2] + dy>> : dx \in -1..1, dy \in -1..1} \ {c}

\* The cells whose count is compared: the viewport and every cell next to a key.
CountRegion == Viewport \cup Box(DOMAIN grid, 1)

\* C9 as stated: in infinite mode a neighbour outside the viewport
\* contributes 0 to countNeighbors: the count is the number of alive
\* neighbours inside the viewport.
C9_OutsideViewportDead ==
    infinite_mode
    => \A c \in CountRegion :
          Neighbors(c) = Cardinality(RawNeighbors(c) \cap Alive(grid) \cap Viewport)

\* C9 as amended: in infinite mode countNeighbors is the number of alive
\* neighbours, inside the viewport or outside it.
C9_InfiniteCountsAll ==
    infinite_mode
    => \A c \in CountRegion :
          Neighbors(c) = Cardinality(RawNeighbors(c) \cap Alive(grid))

\* A cell born outside the viewport by advance() is counted by a viewport
\* cell next to it.
C9_Witness ==
    /\ mode = LIFE /\ infinite_mode /\ n_advance >= 1 /\ NKeys = 0
    /\ \E c \in Alive(grid) \ (Viewport \cup DOMAIN pre_grid) :
          \E d \in Viewport :
              c \in RawNeighbors(d) /\ Neighbors(d) >= 1

----------------------------------------------------------------------------
(* C10 *)

\* C10: an engine constructed with a non-positive width or height is not
\* usable: no advance() is executed on it.
C10_RejectsBadSize ==
    (display_width <= 0 \/ display_height <= 0) => n_advance = 0

----------------------------------------------------------------------------
(* C11 *)

\* The raw neighbour coordinates tried: the neighbours of every cell within
\* MaxCoord of the origin, on either side of the window and far outside it.
RawCoords == (-(MaxCoord + 1))..(MaxCoord + 1)

\* C11: in finite mode with positive width and height, the key looked up
\* for a raw neighbour (nx, ny) is (wx, wy) with ox <= wx < ox + width and
\* oy <= wy < oy + height, wx congruent to nx modulo width and wy to ny
\* modulo height, for negative coordinates and coordinates far outside the
\* window as well.
C11_WrapInWindow ==
    (~infinite_mode /\ display_width > 0 /\ display_height > 0)
    => \A nx \in RawCoords, ny \in RawCoords :
          LET k == Wrap(Self, nx, ny)
          IN  /\ offset[1] <= k[1] /\ k[1] < offset[1] + display_width
              /\ offset[2] <= k[2] /\ k[2] < offset[2] + display_height
              /\ (k[1] - nx) % display_width = 0
              /\ (k[2] - ny) % display_height = 0

\* A finite board, panned away from where it was constructed, after an
\* advance() over a grid with a cell on the window's left column and top
\* row, whose neighbours lie left of and above the window.
C11_Witness ==
    /\ mode = LIFE /\ ~infinite_mode /\ display_width > 1 /\ display_height > 1
    /\ n_advance >= 1 /\ offset # offset0 /\ offset[1] < 0
    /\ offset \in DOMAIN pre_grid
    /\ Wrap(Self, offset[1] - 1, offset[2] - 1)
          = <<offset[1] + display_width - 1, offset[2] + display_height - 1>>

----------------------------------------------------------------------------
(* C12 *)

\* The (dx, dy) pairs of the Moore neighbourhood.
MoorePairs == ((-1..1) \X (-1..1)) \ {<<0, 0>>}

\* The attributes with the cell c made alive, and with c made dead.
WithCell(c) == [Self EXCEPT !.grid = [k \in DOMAIN grid \cup {c} |-> IF k = c THEN 1 ELSE grid[k]]]
WithoutCell(c) == [Self EXCEPT !.grid = [k \in DOMAIN grid \ {c} |-> grid[k]]]

\* C12 as stated: in finite mode with the Moore ruleset, for every positive
\* width and height and every viewport cell, countNeighbors is the number
\* of alive cells among the distinct toroidal neighbours of the cell, the
\* cell itself never among them, and the cell's own alive-state does not
\* change its own count.
C12_DistinctNeighbours ==
    (~infinite_mode /\ rules = MOORE /\ display_width > 0 /\ display_height > 0)
    => \A c \in Viewport :
          /\ Neighbors(c)
               = Cardinality(TorusNeighbors(c, display_width, display_height, offset)
                               \cap Alive(grid))
          /\ get_neighbors(WithCell(c), c[1], c[2])
               = get_neighbors(WithoutCell(c), c[1], c[2])

\* C12 as amended: in finite mode with the Moore ruleset, for every positive
\* width and height and every viewport cell, countNeighbors is the number
\* of the 8 (dx, dy) pairs whose wrapped coordinate is alive; with width and
\* height at least 3 these are 8 distinct viewport cells other than the
\* cell, so the count is the number of alive cells among the distinct
\* toroidal neighbours, a fully alive 3 x 3 grid gives 8 for every cell, and
\* the cell's own alive-state does not change its own count.
C12_WrappedNeighbours ==
    (~infinite_mode /\ rules = MOORE /\ display_width > 0 /\ display_height > 0)
    => \A c \in Viewport :
          /\ Neighbors(c)
               = Cardinality({d \in MoorePairs :
                                Wrap(Self, c[1] + d[1], c[2] + d[2]) \in Alive(grid)})
          /\ (display_width >= 3 /\ display_height >= 3)
             => /\ Neighbors(c)
                     = Cardinality(TorusNeighbors(c, display_width, display_height, offset)
                                     \cap Alive(grid))
                /\ get_neighbors(WithCell(c), c[1], c[2])
                     = get_neighbors(WithoutCell(c), c[1], c[2])
                /\ Viewport \subseteq Alive(grid) => Neighbors(c) = 8
          /\ (counted # Unset /\ c = <<counted.x, counted.y>>)
             => counted.count = Neighbors(c)

\* get_neighbors has returned 8 for a corner of the fully alive 3 x 3 board.
C12_Witness ==
    /\ display_width = 3 /\ display_height = 3 /\ n_advance = 0
    /\ Alive(grid) = Viewport
    /\ counted # Unset
    /\ <<counted.x, counted.y>> = offset
    /\ counted.count = 8

----------------------------------------------------------------------------
(* C15 *)

\* C15: advance() leaves offset, display width and height, boundary mode,
\* ruleset and simulation mode as they were, in both modes (and the ant's
\* position and heading too in Life mode); the offset changes only in a
\* step that is a pan.
C15_AdvanceFrame ==
    [][/\ AdvanceStep
          => /\ UNCHANGED <<offset, display_width, display_height,
                            infinite_mode, rules, mode>>
             /\ mode = LIFE => UNCHANGED <<ant_position, ant_direction>>
       /\ offset' # offset
          => \E d \in Directions :
                /\ pressed'[d] = pressed[d] + 1
                /\ offset' = <<offset[1] + PanVector(d)[1], offset[2] + PanVector(d)[2]>>]_vars

\* An advance() on a panned Ant engine has changed the grid, the ant and
\* the generation, and the offset is still the panned one.
C15_Witness ==
    /\ mode = ANTS /\ n_advance >= 2 /\ generation = n_advance
    /\ grid # pre_grid /\ ant_position # AntStart
    /\ pressed["left"] = 1 /\ NKeys = 1
    /\ offset = <<offset0[1] - 1, offset0[2]>>

----------------------------------------------------------------------------
(* C16 *)

\* C16: in Life mode with finite boundary mode and no panning, the
\* constructed grid lying inside the viewport, every key of the grid lies
\* inside the viewport after any number of advance() calls; in finite mode
\* the grid never holds more than width * height cells.
C16_GridInViewport ==
    (mode = LIFE /\ ~infinite_mode /\ display_width > 0 /\ display_height > 0)
    => /\ NKeys = 0 => DOMAIN grid \subseteq Viewport
       /\ Cardinality(DOMAIN grid) <= display_width * display_height

----------------------------------------------------------------------------
(* C17 *)

\* C17: in Ant mode, in every state reached from construction by advance()
\* calls, the heading is in 0..3 and has the parity of the generation
\* counter, (x - x0) + (y - y0) for the ant at (x, y) started at (x0, y0)
\* has the parity of the generation counter, and every step changes the
\* number of alive cells by exactly +1 or -1.
C17_AntParity ==
    /\ [](mode = ANTS
          => /\ ant_direction \in 0..3
             /\ ant_direction % 2 = generation % 2
             /\ ((ant_position[1] - AntStart[1]) + (ant_position[2] - AntStart[2])) % 2
                  = generation % 2)
    /\ [][(AdvanceStep /\ mode = ANTS)
          => Cardinality(Alive(grid')) - Cardinality(Alive(grid)) \in {1, -1}]_vars

\* After five steps the ant is back on a cell it had made alive and has
\* made it dead again: the alive count has gone up four times and down once.
C17_Witness ==
    /\ mode = ANTS /\ generation = 5 /\ ant_direction \in {1, 3}
    /\ Cardinality(Alive(pre_grid)) = 4 /\ Cardinality(Alive(grid)) = 3
    /\ ant_position # AntStart

----------------------------------------------------------------------------
(* C13 *)

\* The frames built so far: the ones shown and the one of the iteration
\* under way.
Frames == {shown[k] : k \in 1..Len(shown)}
            \cup (IF run_pc \in {"advance", "update"} THEN {table} ELSE {})

\* The k-th frame shown is the picture of the attributes as they were before
\* the k-th next_generation() of the loop, whose generation is k - 1.
ShowsPast(k) ==
    /\ past[k].generation = k - 1
    /\ shown[k].generation = k - 1
    /\ shown[k].of = generations
    /\ DOMAIN shown[k].cells = Positions(past[k])
    /\ \A pos \in DOMAIN shown[k].cells :
          shown[k].cells[pos].glyph
            = Cell(past[k], pos[1], pos[2], shown[k].cells[pos].off)

\* How far the thread that called run() has got: three steps an iteration.
Progress ==
    CASE run_pc = "idle" -> -1
      [] run_pc = "frame" -> 3 * run_i
      [] run_pc = "advance" -> 3 * run_i + 1
      [] run_pc = "update" -> 3 * run_i + 2
      [] run_pc = "done" -> 3 * generations

\* C13: run(generations = n) makes exactly n loop iterations and then
\* returns, generation having grown by exactly n; the k-th frame shown
\* (k = 1..n) is built from the state before the k-th advance(): it displays
\* generation k - 1 and its grid, and the state the last advance() reaches
\* (generation n) is never displayed.  (It returns: until it has, the
\* calling thread always has a next step, every step of it takes it further
\* and there are 3 * n steps to take.)
C13_RunLoop ==
    /\ [](/\ run_i <= generations /\ Len(shown) = run_i
          /\ generation = Len(past) /\ n_advance = Len(past)
          /\ Len(past) = run_i + (IF run_pc = "update" THEN 1 ELSE 0)
          /\ \A k \in 1..Len(shown) : ShowsPast(k)
          /\ run_pc = "done"
             => /\ run_i = generations /\ generation = generations
                /\ \A f \in Frames : f.generation < generation)
    /\ [](/\ Progress <= 3 * generations
          /\ run_pc # "done" => ENABLED RunThread)
    /\ [][/\ run_pc = "done" => run_pc' = "done" /\ UNCHANGED <<generation, grid, shown>>
          /\ Progress' >= Progress
          /\ <<run_pc, run_i>>' # <<run_pc, run_i>>
             => (Progress' = Progress + 1 \/ (run_pc = "idle" /\ Progress' = 0))]_vars

\* run(generations = 2) has returned: two frames were shown, of generations
\* 0 and 1, with different cells, and the generation is 2.
C13_Witness ==
    /\ run_pc = "done" /\ generations = 2 /\ generation = 2 /\ Len(shown) = 2
    /\ shown[1].generation = 0 /\ shown[2].generation = 1
    /\ shown[1].cells # shown[2].cells
    /\ grid # past[2].grid

----------------------------------------------------------------------------
(* C14 *)

\* C14: the mutating calls are serialized in run(): a pan delivered by the
\* key-press callback does not take effect in the middle of a loop
\* iteration, so every cell of one frame is rendered with the same offset,
\* and every neighbour lookup of one advance() in finite mode reads the
\* same offset.
C14_Serialized ==
    /\ \A f \in Frames :
          \A pos \in DOMAIN f.cells, other \in DOMAIN f.cells :
             f.cells[pos].off = f.cells[other].off
    /\ Cardinality(lookup_offsets) <= 1

====
